---- MODULE Spec2Model ----
(***************************************************************************)
(* The flow runner of scripts/web_screenshot_flow.py: run() reads a JSON   *)
(* spec, validates it, launches one browser, executes the steps in order   *)
(* and maps every failure to an exit code.  The browser-automation engine  *)
(* is the environment: each call to it is logged and may succeed, raise    *)
(* its TimeoutError or raise another error.                                *)
(***************************************************************************)
EXTENDS Integers, Sequences, FiniteSets, TLC

VARIABLES argv, cwd, file, spec, pc, loc, idx, log, files, dirs, stdout, stderr, err, exitCode

vars == <<argv, cwd, file, spec, pc, loc, idx, log, files, dirs, stdout, stderr, err, exitCode>>

(* ---------------------------------------------------------------- bounds *)
\* longest step list of the step specification
MaxSteps == 3
\* largest number of elements a locator matches
MaxMatches == 2
\* largest afterMs / ms value of a step (the smallest is -1)
MaxMs == 1

(* ------------------------------------------------------- program numbers *)
DefaultWidth == 1440
DefaultHeight == 900
DefaultTimeoutMs == 30000

(* ----------------------------------------------------------- JSON values *)
\* A JSON value as Python sees it after json.loads: its type tag, its number
\* (int/float value, bool as 0/1, len() of a list or dict) and its string.
\* "absent" is a key the dict does not hold.
J(t, n, s) == [t |-> t, n |-> n, s |-> s]
Absent == J("absent", 0, "")
JNull == J("null", 0, "")
JBool(b) == J("bool", IF b THEN 1 ELSE 0, "")
JInt(n) == J("int", n, "")
JFloat(n) == J("float", n, "")
JStr(s) == J("str", 0, s)
JList(n) == J("list", n, "")
JDict(n) == J("dict", n, "")

\* dict.get(key): None for a missing key
Get(v) == IF v.t = "absent" THEN JNull ELSE v
\* dict.get(key, default)
GetDefault(v, d) == IF v.t = "absent" THEN d ELSE v
\* an integer check that turns booleans away
IsStrictlyInt(v) == v.t = "int"
\* isinstance(v, int): bool is a subclass of int
IsInstanceInt(v) == v.t \in {"int", "bool"}
IsInstanceStr(v) == v.t = "str"
IsInstanceDict(v) == v.t = "dict"
IsInstanceList(v) == v.t = "list"
\* bool(v)
Truthy(v) == CASE v.t \in {"null", "absent"} -> FALSE
               [] v.t = "str" -> v.s # ""
               [] OTHER -> v.n # 0

(* ----------------------------------------------------------------- paths *)
\* A pathlib.Path is its sequence of parts; an absolute path starts with "/".
Home == <<"/", "home">>
\* Path(s) for the path strings of the inputs
PathParse(s) == CASE s = "" -> <<>>
                  [] s = "flow.json" -> <<"flow.json">>
                  [] s = "/proj/flow.json" -> <<"/", "proj", "flow.json">>
                  [] s = "sub/flow.json" -> <<"sub", "flow.json">>
                  [] s = "shots" -> <<"shots">>
                  [] s = "../out" -> <<"..", "out">>
                  [] s = "/out" -> <<"/", "out">>
                  [] s = "~/out" -> <<"~", "out">>
                  [] s = "01.png" -> <<"01.png">>
                  [] s = "a/b/out.png" -> <<"a", "b", "out.png">>
                  [] s = "/abs/out.png" -> <<"/", "abs", "out.png">>
                  [] OTHER -> <<s>>
IsAbsolute(p) == Len(p) > 0 /\ p[1] = "/"
ExpandUser(p) == IF Len(p) > 0 /\ p[1] = "~" THEN Home \o Tail(p) ELSE p
Parent(p) == IF Len(p) > 1 THEN SubSeq(p, 1, Len(p) - 1) ELSE p

RECURSIVE Collapse(_, _)
\* the parts of an absolute path with every ".." taken with the part before it
Collapse(done, rest) ==
    IF rest = <<>> THEN done
    ELSE IF Head(rest) = ".."
         THEN Collapse(IF Len(done) > 1 THEN SubSeq(done, 1, Len(done) - 1) ELSE done, Tail(rest))
         ELSE Collapse(Append(done, Head(rest)), Tail(rest))
\* Path.resolve(): absolute (against the working directory) and normalised
Resolve(p, wd) == Collapse(<<>>, IF IsAbsolute(p) THEN p ELSE wd \o p)

\* resolve_path that joins whatever the path is
resolve_path_always_joins(path, base_dir) == base_dir \o PathParse(path)
\* resolve_path(path, base_dir)
resolve_path(path, base_dir) ==
    IF ~IsAbsolute(PathParse(path)) THEN base_dir \o PathParse(path) ELSE PathParse(path)

\* every ancestor directory of p, p included (mkdir(parents=True))
Ancestors(p) == {SubSeq(p, 1, k) : k \in 1..Len(p)}

(* ---------------------------------------------------------------- errors *)
\* An exception: its class and its message (the pieces of the f-string).
Exc(cls, msg) == [cls |-> cls, msg |-> msg]
NoError == Exc("none", <<>>)
SpecError(msg) == Exc("SpecError", msg)
\* a check of run() that prints its message and returns 2 without raising
Rejected(msg) == Exc("Rejected", msg)
\* what the engine raises: its TimeoutError, or any other error of its own
EngineFailure(o, call) == Exc(IF o = "timeout" THEN "TimeoutError" ELSE "Error", <<call>>)

(* --------------------------------------------------------- engine calls *)
\* One call the runner makes: the operation, the step it belongs to (0 at
\* startup and teardown), and its arguments.
Ev(op, i, s, a, b, p) == [op |-> op, i |-> i, s |-> s, a |-> a, b |-> b, p |-> p]
\* What a piece of code did: the calls it made in order, the exception it ended
\* with (NoError when it ran through), the files and directories it created and
\* the lines it printed.
Run(ev, exc) == [ev |-> ev, exc |-> exc, wrote |-> {}, made |-> {}, out |-> <<>>]
Skip == Run(<<>>, NoError)
\* first, and then (when first raised nothing) one of rest
Then(first, rest) ==
    IF first.exc # NoError THEN {first}
    ELSE {[ev |-> first.ev \o r.ev, exc |-> r.exc, wrote |-> first.wrote \cup r.wrote,
           made |-> first.made \cup r.made, out |-> first.out \o r.out] : r \in rest}
Seq2(A, B) == UNION {Then(x, B) : x \in A}
\* the outcomes of an engine call: with a timeout, and without one
Timed == {"ok", "timeout", "error"}
Untimed == {"ok", "error"}
Call(e, outcomes) == {Run(<<e>>, IF o = "ok" THEN NoError ELSE EngineFailure(o, e.op)) : o \in outcomes}

\* maybe_wait that lets a pause of 0 through
maybe_wait_zero(i, ms) ==
    IF ms.t = "null" THEN {Skip}
    ELSE IF ms.t \notin {"int", "bool", "float"}
         THEN {Run(<<>>, Exc("TypeError", <<"'<=' not supported">>))}
         ELSE IF ms.n < 0 THEN {Skip}
              ELSE Call(Ev("wait_for_timeout", i, "", ms, JNull, <<>>), Untimed)
\* maybe_wait(page, ms)
maybe_wait(i, ms) ==
    IF ms.t = "null" THEN {Skip}
    ELSE IF ms.t \notin {"int", "bool", "float"}
         THEN {Run(<<>>, Exc("TypeError", <<"'<=' not supported">>))}
         ELSE IF ms.n <= 0 THEN {Skip}
              ELSE Call(Ev("wait_for_timeout", i, "", ms, JNull, <<>>), Untimed)

\* locator.count() of one category: any number of matches up to MaxMatches
Count(i, cat, text, n) == Run(<<Ev("count", i, cat, JInt(n), JStr(text), <<>>)>>, NoError)
FirstClick(i, cat, no_wait, timeout_ms) ==
    Call(Ev("locator.first.click", i, cat, JBool(no_wait), timeout_ms, <<>>), Timed)
NotFound(text) == Run(<<>>, Exc("TimeoutError", <<"No element found matching text: ", text>>))

\* click_by_text(page, text, timeout_ms): each return ends the function
click_by_text(i, text, timeout_ms) ==
    LET by_text == UNION {Then(Count(i, "text", text, nt),
                            IF nt > 0 THEN FirstClick(i, "text", FALSE, timeout_ms)
                            ELSE {NotFound(text)}) : nt \in 0..MaxMatches}
        by_link == UNION {Then(Count(i, "link", text, nl),
                            IF nl > 0 THEN FirstClick(i, "link", FALSE, timeout_ms)
                            ELSE by_text) : nl \in 0..MaxMatches}
    IN UNION {Then(Count(i, "button", text, nb),
                IF nb > 0 THEN FirstClick(i, "button", FALSE, timeout_ms)
                ELSE by_link) : nb \in 0..MaxMatches}

\* the noWaitAfter branch with the link tried before the button
click_text_no_wait_link_first(i, text, timeout_ms) ==
    UNION {Then(Count(i, "link", text, nl),
             IF nl > 0 THEN FirstClick(i, "link", TRUE, timeout_ms)
             ELSE UNION {Then(Count(i, "button", text, nb),
                           IF nb > 0 THEN FirstClick(i, "button", TRUE, timeout_ms)
                           ELSE UNION {Then(Count(i, "text", text, nt),
                                         IF nt > 0 THEN FirstClick(i, "text", TRUE, timeout_ms)
                                         ELSE {NotFound(text)})
                                       : nt \in 0..MaxMatches})
                         : nb \in 0..MaxMatches})
           : nl \in 0..MaxMatches}
\* the noWaitAfter branch of the clickText step
click_text_no_wait(i, text, timeout_ms) ==
    UNION {Then(Count(i, "button", text, nb),
             IF nb > 0 THEN FirstClick(i, "button", TRUE, timeout_ms)
             ELSE UNION {Then(Count(i, "link", text, nl),
                           IF nl > 0 THEN FirstClick(i, "link", TRUE, timeout_ms)
                           ELSE UNION {Then(Count(i, "text", text, nt),
                                         IF nt > 0 THEN FirstClick(i, "text", TRUE, timeout_ms)
                                         ELSE {NotFound(text)})
                                       : nt \in 0..MaxMatches})
                         : nl \in 0..MaxMatches})
           : nb \in 0..MaxMatches}

(* --------------------------------------------------------------- startup *)
\* load_spec without the check that the JSON is an object
load_spec_any_json(f) ==
    CASE f = "unreadable" -> Exc("OSError", <<"read_text">>)
      [] f = "badjson" -> SpecError(<<"invalid JSON spec: ", "exc">>)
      [] OTHER -> NoError
\* load_spec(path): what json.loads(path.read_text()) gives for the file
load_spec(f) ==
    CASE f = "unreadable" -> Exc("OSError", <<"read_text">>)
      [] f = "badjson" -> SpecError(<<"invalid JSON spec: ", "exc">>)
      [] f = "nonobject" -> SpecError(<<"spec must be a JSON object">>)
      [] OTHER -> NoError
\* require_key that checks only a key the spec holds
require_key_if_present(value, key, expected_type) ==
    IF value.t # "absent" /\ value.t # expected_type
    THEN SpecError(<<"spec.", key, " must be ", expected_type>>)
    ELSE NoError
\* require_key(spec, key, expected_type)
require_key(value, key, expected_type) ==
    IF Get(value).t # expected_type
    THEN SpecError(<<"spec.", key, " must be ", expected_type>>)
    ELSE NoError

WaitUntilValues == {"load", "domcontentloaded", "networkidle", "commit"}
\* a line of standard error: its prefix, the message, and the path it prints
Line(prefix, msg, p) == [prefix |-> prefix, msg |-> msg, p |-> p]
NoLoc ==
    [spec_path |-> <<>>, url |-> JNull, width |-> JNull, height |-> JNull, timeout_ms |-> JNull,
     full_page |-> FALSE, headless |-> FALSE, wait_until |-> JNull, slow_mo |-> JNull,
     base_dir |-> <<>>]
Stop(code, exc, prefix, p, l) ==
    [ok |-> FALSE, code |-> code, exc |-> exc, line |-> Line(prefix, exc.msg, p), loc |-> l]

\* run(), from parse_args() to base_dir: the locals it has set when it stops
\* or goes on to the browser
Startup(a, wd, f, sp) ==
    LET spec_path == Resolve(ExpandUser(PathParse(a.spec)), wd)
        l0 == [NoLoc EXCEPT !.spec_path = spec_path]
        loaded == load_spec(f)
        url_exc == require_key(sp.url, "url", "str")
        steps_exc == require_key(sp.steps, "steps", "list")
        l1 == [l0 EXCEPT !.url = sp.url]
        viewport == GetDefault(sp.viewport, JDict(2))
        width == IF sp.viewport.t = "absent" THEN JInt(DefaultWidth)
                 ELSE GetDefault(sp.width, JInt(DefaultWidth))
        height == IF sp.viewport.t = "absent" THEN JInt(DefaultHeight)
                  ELSE GetDefault(sp.height, JInt(DefaultHeight))
        l2 == [l1 EXCEPT !.width = width, !.height = height]
        timeout_ms == GetDefault(sp.timeoutMs, JInt(DefaultTimeoutMs))
        l3 == [l2 EXCEPT !.timeout_ms = timeout_ms]
        full_page == Truthy(GetDefault(sp.fullPage, JBool(FALSE)))
        headless == Truthy(GetDefault(sp.headless, JBool(TRUE)))
        wait_until == GetDefault(sp.waitUntil, JStr("networkidle"))
        l4 == [l3 EXCEPT !.full_page = full_page, !.headless = headless, !.wait_until = wait_until]
        slow_mo == IF a.slowmo.t # "null" THEN a.slowmo ELSE Get(sp.slowMoMs)
        base_dir == IF Truthy(a.out_dir)
                    THEN Resolve(ExpandUser(PathParse(a.out_dir.s)), wd)
                    ELSE Parent(spec_path)
    IN  CASE f = "missing" ->
               Stop(2, Rejected(<<"spec not found: ">>), "", spec_path, l0)
          [] f # "missing" /\ loaded.cls = "OSError" ->
               Stop(1, loaded, "Traceback: ", <<>>, l0)
          [] f # "missing" /\ loaded.cls = "SpecError" ->
               Stop(2, loaded, "error: ", <<>>, l0)
          [] f = "object" /\ url_exc # NoError ->
               Stop(2, url_exc, "error: ", <<>>, l0)
          [] f = "object" /\ url_exc = NoError /\ steps_exc # NoError ->
               Stop(2, steps_exc, "error: ", <<>>, l1)
          [] OTHER ->
               IF ~IsInstanceDict(viewport)
               THEN Stop(2, Rejected(<<"spec.viewport must be an object">>), "error: ", <<>>, l1)
               ELSE IF ~IsInstanceInt(width) \/ ~IsInstanceInt(height)
               THEN Stop(2, Rejected(<<"spec.viewport width/height must be integers">>),
                         "error: ", <<>>, l2)
               ELSE IF ~IsInstanceInt(timeout_ms)
               THEN Stop(2, Rejected(<<"spec.timeoutMs must be an integer">>), "error: ", <<>>, l3)
               ELSE IF ~(wait_until.t = "str" /\ wait_until.s \in WaitUntilValues)
               THEN Stop(2,
                         Rejected(<<"spec.waitUntil must be load|domcontentloaded|networkidle|commit">>),
                         "error: ", <<>>, l4)
               ELSE [ok |-> TRUE, code |-> -1, exc |-> NoError, line |-> Line("", <<>>, <<>>),
                     loc |-> [l4 EXCEPT !.slow_mo = slow_mo,
                                        !.headless = IF a.headed THEN FALSE ELSE headless,
                                        !.base_dir = base_dir]]

(* ---------------------------------------------------------------- inputs *)
\* A step of the list: whether it is a JSON object, and the keys run() reads.
StepRec(action, selector, text, noWaitAfter, ms, path, url, afterMs) ==
    [dict |-> TRUE, action |-> action, selector |-> selector, text |-> text,
     noWaitAfter |-> noWaitAfter, ms |-> ms, path |-> path, url |-> url, afterMs |-> afterMs]
NotAnObject ==
    [dict |-> FALSE, action |-> Absent, selector |-> Absent, text |-> Absent,
     noWaitAfter |-> Absent, ms |-> Absent, path |-> Absent, url |-> Absent, afterMs |-> Absent]
WaitForStep(selector, afterMs) ==
    StepRec(JStr("waitFor"), selector, Absent, Absent, Absent, Absent, Absent, afterMs)
ClickStep(selector, noWaitAfter, afterMs) ==
    StepRec(JStr("click"), selector, Absent, noWaitAfter, Absent, Absent, Absent, afterMs)
ClickTextStep(text, noWaitAfter, afterMs) ==
    StepRec(JStr("clickText"), Absent, text, noWaitAfter, Absent, Absent, Absent, afterMs)
SleepStep(ms, afterMs) ==
    StepRec(JStr("sleep"), Absent, Absent, Absent, ms, Absent, Absent, afterMs)
ScreenshotStep(path, afterMs) ==
    StepRec(JStr("screenshot"), Absent, Absent, Absent, Absent, path, Absent, afterMs)
GotoStep(url, afterMs) ==
    StepRec(JStr("goto"), Absent, Absent, Absent, Absent, Absent, url, afterMs)
ActionStep(action) ==
    StepRec(action, Absent, Absent, Absent, Absent, Absent, Absent, Absent)

\* afterMs / ms values: missing, null, of the wrong type, and integers around 0
MsValues == {Absent, JNull, JStr("soon")} \cup {JInt(n) : n \in -1..MaxMs}
\* one step of every kind, valid and invalid
CoreSteps ==
    {WaitForStep(JStr("#login"), JInt(1)), WaitForStep(Absent, JInt(1)),
     ClickStep(JStr("#login"), Absent, Absent),
     ClickTextStep(JStr("Continue"), Absent, JInt(1)),
     ClickTextStep(JStr("Continue"), JBool(TRUE), Absent),
     SleepStep(JInt(1), Absent),
     ScreenshotStep(JStr("01.png"), JInt(1)), ScreenshotStep(JStr("a/b/out.png"), Absent),
     ScreenshotStep(Absent, JInt(1)),
     GotoStep(JStr("https://b/"), Absent),
     ActionStep(JStr("hover")), ActionStep(JInt(7)), NotAnObject}
\* the steps the longer lists are made of: one of each kind, one with a missing
\* field and one with an unknown action
SequenceSteps ==
    {WaitForStep(JStr("#login"), JInt(1)),
     ClickStep(JStr("#login"), Absent, Absent),
     ClickTextStep(JStr("Continue"), JBool(TRUE), Absent),
     SleepStep(JInt(1), Absent),
     ScreenshotStep(JStr("01.png"), JInt(1)),
     ScreenshotStep(Absent, JInt(1)),
     GotoStep(JStr("https://b/"), Absent),
     ActionStep(JStr("hover"))}
\* every shape of step: each kind with every afterMs, flag and required field
AllSteps ==
    CoreSteps
    \cup {WaitForStep(JStr("#login"), m) : m \in MsValues}
    \cup {ClickStep(sel, nw, m) : sel \in {JStr("#login")}, nw \in {Absent, JBool(TRUE)}, m \in MsValues}
    \cup {ClickStep(JInt(3), Absent, JInt(1))}
    \cup {ClickTextStep(JStr("Continue"), nw, m) :
            nw \in {Absent, JBool(FALSE), JBool(TRUE), JStr("yes")}, m \in MsValues}
    \cup {ClickTextStep(JNull, JBool(TRUE), JInt(1))}
    \cup {SleepStep(ms, m) : ms \in MsValues, m \in {Absent, JInt(1)}}
    \cup {ScreenshotStep(JStr(pth), m) : pth \in {"01.png", "/abs/out.png"}, m \in MsValues}
    \cup {GotoStep(JStr("https://b/"), m) : m \in MsValues}
    \cup {GotoStep(Absent, JInt(1))}
    \cup {ActionStep(JStr("Click")), ActionStep(Absent)}

RECURSIVE ListsUpTo(_, _)
\* the lists over S of length at most n
ListsUpTo(S, n) ==
    IF n = 0 THEN {<<>>}
    ELSE LET shorter == ListsUpTo(S, n - 1)
         IN shorter \cup {Append(l, x) : l \in shorter, x \in S}

\* the spec object: the top-level keys run() reads, the keys of its viewport,
\* and the items of its steps list
DefaultSpec ==
    [url |-> JStr("https://a/"), steps |-> JList(0), items |-> <<>>, viewport |-> Absent,
     width |-> Absent, height |-> Absent, fullPage |-> Absent, timeoutMs |-> Absent,
     headless |-> Absent, waitUntil |-> Absent, slowMoMs |-> Absent]
WithSteps(sp, items) == [sp EXCEPT !.steps = JList(Len(items)), !.items = items]
DefaultArgv == [spec |-> "flow.json", out_dir |-> JNull, headed |-> FALSE, slowmo |-> JNull]
FileStates == {"missing", "unreadable", "badjson", "nonobject", "object"}

\* the state run() starts in, for the inputs given
Start(a, wd, f, sp) ==
    /\ argv = a /\ cwd = wd /\ file = f /\ spec = sp
    /\ pc = "start" /\ loc = NoLoc /\ idx = 1
    /\ log = <<>> /\ files = {} /\ dirs = {} /\ stdout = <<>> /\ stderr = <<>>
    /\ err = NoError /\ exitCode = -1

\* step lists: every list of sequence steps up to MaxSteps, and every step shape
\* alone and after a screenshot; with a few invalid top-level specs and every
\* state of the file
StepLists ==
    ListsUpTo(SequenceSteps, MaxSteps)
    \cup {<<st>> : st \in AllSteps}
    \cup {<<ScreenshotStep(JStr("01.png"), Absent), st>> : st \in AllSteps}
FewSpecs ==
    {WithSteps(DefaultSpec, l) : l \in StepLists}
    \cup {[WithSteps(DefaultSpec, <<ScreenshotStep(JStr("01.png"), Absent)>>) EXCEPT !.url = u]
            : u \in {Absent, JInt(1)}}
    \cup {[DefaultSpec EXCEPT !.steps = v] : v \in {Absent, JStr("none")}}
    \cup {[WithSteps(DefaultSpec, <<ScreenshotStep(JStr("01.png"), Absent)>>) EXCEPT !.timeoutMs = JStr("1s")]}
Init ==
    \E f \in FileStates, sp \in FewSpecs :
        /\ f # "object" => sp = DefaultSpec
        /\ Start(DefaultArgv, <<"/", "proj">>, f, sp)

(* ------------------------------------------------------------- the steps *)
KnownActions == {"waitFor", "click", "clickText", "sleep", "screenshot", "goto"}

\* browser launch, context, page and the first navigation
launch_and_open(l) ==
    Seq2(Call(Ev("sync_playwright", 0, "", JNull, JNull, <<>>), Untimed),
    Seq2(Call(Ev("launch", 0, "", JBool(l.headless), l.slow_mo, <<>>), Timed),
    Seq2(Call(Ev("new_context", 0, "", l.width, l.height, <<>>), Untimed),
    Seq2(Call(Ev("new_page", 0, "", JNull, JNull, <<>>), Untimed),
         Call(Ev("goto", 0, l.url.s, l.wait_until, l.timeout_ms, <<>>), Timed)))))

\* action == "waitFor"
wait_for_step(i, st, l) ==
    LET selector == Get(st.selector)
    IN  IF ~IsInstanceStr(selector)
        THEN {Run(<<>>, SpecError(<<"waitFor requires selector">>))}
        ELSE Seq2(Call(Ev("wait_for_selector", i, selector.s, JNull, l.timeout_ms, <<>>), Timed),
                  maybe_wait(i, Get(st.afterMs)))

\* action == "click"
click_step(i, st, l) ==
    LET selector == Get(st.selector)
        no_wait == Truthy(GetDefault(st.noWaitAfter, JBool(FALSE)))
    IN  IF ~IsInstanceStr(selector)
        THEN {Run(<<>>, SpecError(<<"click requires selector">>))}
        ELSE Seq2(Call(Ev("click", i, selector.s, JBool(no_wait), l.timeout_ms, <<>>), Timed),
                  maybe_wait(i, Get(st.afterMs)))

\* action == "clickText"
click_text_step(i, st, l) ==
    LET text == Get(st.text)
        no_wait == Truthy(GetDefault(st.noWaitAfter, JBool(FALSE)))
    IN  IF ~IsInstanceStr(text)
        THEN {Run(<<>>, SpecError(<<"clickText requires text">>))}
        ELSE Seq2(IF no_wait THEN click_text_no_wait(i, text.s, l.timeout_ms)
                  ELSE click_by_text(i, text.s, l.timeout_ms),
                  maybe_wait(i, Get(st.afterMs)))

\* action == "sleep"
sleep_step(i, st, l) ==
    LET sleep_ms == Get(st.ms)
    IN  IF ~IsInstanceInt(sleep_ms)
        THEN {Run(<<>>, SpecError(<<"sleep requires ms">>))}
        ELSE Call(Ev("wait_for_timeout", i, "", sleep_ms, JNull, <<>>), Untimed)

\* out_path.parent.mkdir(parents=True, exist_ok=True)
mkdir_parents(i, out_path) ==
    {[Run(<<Ev("mkdir", i, "", JNull, JNull, Parent(out_path))>>, NoError)
        EXCEPT !.made = Ancestors(Parent(out_path))],
     Run(<<Ev("mkdir", i, "", JNull, JNull, Parent(out_path))>>, Exc("OSError", <<"mkdir">>))}
\* page.screenshot(path=..., full_page=...) and the line printed after it
take_screenshot(i, out_path, full_page) ==
    LET shot == Ev("screenshot", i, "", JBool(full_page), JNull, out_path)
    IN  {[Run(<<shot>>, NoError)
            EXCEPT !.wrote = {out_path}, !.out = <<Line("Saved screenshot: ", <<>>, out_path)>>],
         Run(<<shot>>, EngineFailure("timeout", "screenshot")),
         Run(<<shot>>, EngineFailure("error", "screenshot"))}

\* action == "screenshot"
screenshot_step(i, st, l) ==
    LET path == Get(st.path)
        out_path == resolve_path(path.s, l.base_dir)
    IN  IF ~IsInstanceStr(path)
        THEN {Run(<<>>, SpecError(<<"screenshot requires path">>))}
        ELSE Seq2(maybe_wait(i, Get(st.afterMs)),
             Seq2(mkdir_parents(i, out_path), take_screenshot(i, out_path, l.full_page)))

\* action == "goto"
goto_step(i, st, l) ==
    LET next_url == Get(st.url)
    IN  IF ~IsInstanceStr(next_url)
        THEN {Run(<<>>, SpecError(<<"goto requires url">>))}
        ELSE Seq2(Call(Ev("goto", i, next_url.s, l.wait_until, l.timeout_ms, <<>>), Timed),
                  maybe_wait(i, Get(st.afterMs)))

\* the two close calls the other way round
close_browser_first ==
    Seq2(Call(Ev("browser.close", 0, "", JNull, JNull, <<>>), Untimed),
         Call(Ev("context.close", 0, "", JNull, JNull, <<>>), Untimed))
\* context.close() and browser.close()
close_all ==
    Seq2(Call(Ev("context.close", 0, "", JNull, JNull, <<>>), Untimed),
         Call(Ev("browser.close", 0, "", JNull, JNull, <<>>), Untimed))

(* ---------------------------------------------------- the except clauses *)
\* the except clauses without the one for the engine's TimeoutError
ExitCodeSpecErrorOnly(cls) == IF cls = "SpecError" THEN 2 ELSE 1
\* the exit code of an exception raised inside the try block
ExitCodeFor(cls) ==
    IF cls = "SpecError" THEN 2
    ELSE IF cls = "TimeoutError" THEN 2
    ELSE 1

\* leaving the with block stops the engine's driver, once it was started
LeaveWith(exc) ==
    IF exc.msg = <<"sync_playwright">> THEN <<>>
    ELSE <<Ev("sync_playwright.__exit__", 0, "", JNull, JNull, <<>>)>>

\* where run() goes after a piece of the try block that finished without raising
Continue(nextPc, nextIdx) ==
    /\ pc' = nextPc
    /\ idx' = nextIdx
    /\ exitCode' = IF nextPc = "done" THEN 0 ELSE exitCode
    /\ UNCHANGED <<stderr, err>>

\* except clauses that print the error and go on with the next step
RaiseAndGoOn(exc) ==
    /\ pc' = pc
    /\ idx' = idx + 1
    /\ err' = exc
    /\ stderr' = Append(stderr, Line("error: ", exc.msg, <<>>))
    /\ exitCode' = exitCode

\* the except clauses: print the error and return its code; pc stays where
\* the exception was raised
Raise(exc) ==
    /\ pc' = pc
    /\ idx' = idx
    /\ err' = exc
    /\ stderr' = Append(stderr, Line("error: ", exc.msg, <<>>))
    /\ exitCode' = ExitCodeFor(exc.cls)

\* the effects of a piece of the try block, and what follows it
Commit(r, nextPc, nextIdx) ==
    /\ log' = log \o r.ev \o (IF r.exc # NoError \/ nextPc = "done" THEN LeaveWith(r.exc) ELSE <<>>)
    /\ files' = files \cup r.wrote
    /\ dirs' = dirs \cup r.made
    /\ stdout' = stdout \o r.out
    /\ IF r.exc = NoError THEN Continue(nextPc, nextIdx) ELSE Raise(r.exc)
    /\ UNCHANGED <<argv, cwd, file, spec, loc>>

(* --------------------------------------------------------------- actions *)
steps == spec.items
\* run() has not returned
Running == exitCode = -1
InLoop == Running /\ pc = "steps" /\ idx \in 1..Len(steps)
raw_step == steps[idx]
ActionIs(a) == raw_step.dict /\ Get(raw_step.action) = JStr(a)

\* run() up to the try block: arguments, the spec file, the top-level checks
LoadAndValidate ==
    /\ Running /\ pc = "start"
    /\ LET r == Startup(argv, cwd, file, spec)
       IN  /\ loc' = r.loc
           /\ IF r.ok
              THEN pc' = "launch" /\ UNCHANGED <<stderr, err, exitCode>>
              ELSE /\ pc' = pc
                   /\ stderr' = Append(stderr, r.line)
                   /\ err' = r.exc
                   /\ exitCode' = r.code
    /\ UNCHANGED <<argv, cwd, file, spec, idx, log, files, dirs, stdout>>

Launch ==
    /\ Running /\ pc = "launch"
    /\ \E r \in launch_and_open(loc) : Commit(r, "steps", idx)

StepNotObject ==
    /\ InLoop /\ ~raw_step.dict
    /\ Commit(Run(<<>>, SpecError(<<"each step must be an object">>)), "steps", idx + 1)

StepActionNotString ==
    /\ InLoop /\ raw_step.dict /\ ~IsInstanceStr(Get(raw_step.action))
    /\ Commit(Run(<<>>, SpecError(<<"step.action must be a string">>)), "steps", idx + 1)

StepWaitFor ==
    /\ InLoop /\ ActionIs("waitFor")
    /\ \E r \in wait_for_step(idx, raw_step, loc) : Commit(r, "steps", idx + 1)

StepClick ==
    /\ InLoop /\ ActionIs("click")
    /\ \E r \in click_step(idx, raw_step, loc) : Commit(r, "steps", idx + 1)

StepClickText ==
    /\ InLoop /\ ActionIs("clickText")
    /\ \E r \in click_text_step(idx, raw_step, loc) : Commit(r, "steps", idx + 1)

StepSleep ==
    /\ InLoop /\ ActionIs("sleep")
    /\ \E r \in sleep_step(idx, raw_step, loc) : Commit(r, "steps", idx + 1)

StepScreenshot ==
    /\ InLoop /\ ActionIs("screenshot")
    /\ \E r \in screenshot_step(idx, raw_step, loc) : Commit(r, "steps", idx + 1)

StepGoto ==
    /\ InLoop /\ ActionIs("goto")
    /\ \E r \in goto_step(idx, raw_step, loc) : Commit(r, "steps", idx + 1)

\* a dispatch that falls through on an action it does not know
StepUnknownIgnored ==
    /\ InLoop /\ raw_step.dict /\ IsInstanceStr(Get(raw_step.action))
    /\ Get(raw_step.action).s \notin KnownActions
    /\ Commit(Skip, "steps", idx + 1)

StepUnknown ==
    /\ InLoop /\ raw_step.dict /\ IsInstanceStr(Get(raw_step.action))
    /\ Get(raw_step.action).s \notin KnownActions
    /\ Commit(Run(<<>>, SpecError(<<"unknown action: ", Get(raw_step.action).s>>)), "steps", idx + 1)

\* after the last step: close the context and the browser, return 0
Teardown ==
    /\ Running /\ pc = "steps" /\ idx = Len(steps) + 1
    /\ \E r \in close_all : Commit(r, "done", idx)

Next ==
    \/ LoadAndValidate
    \/ Launch
    \/ StepNotObject
    \/ StepActionNotString
    \/ StepWaitFor
    \/ StepClick
    \/ StepClickText
    \/ StepSleep
    \/ StepScreenshot
    \/ StepGoto
    \/ StepUnknown
    \/ Teardown

Spec == Init /\ [][Next]_vars

(* ------------------------------------------- the startup specification *)
\* every combination of the top-level keys, each missing, valid and invalid
StartupSpecs ==
    {[url |-> u, steps |-> IF sv.t = "list" THEN JList(1) ELSE sv,
      items |-> IF sv.t = "list" THEN <<ScreenshotStep(JStr("01.png"), Absent)>> ELSE <<>>,
      viewport |-> vp.v, width |-> vp.w, height |-> vp.h, fullPage |-> fp, timeoutMs |-> tm,
      headless |-> hl, waitUntil |-> wu, slowMoMs |-> sm] :
        u \in {JStr("https://a/"), Absent, JInt(1)},
        sv \in {JList(1), Absent, JStr("none")},
        vp \in {[v |-> x, w |-> Absent, h |-> Absent] : x \in {Absent, JNull, JStr("big")}}
               \cup {[v |-> JDict(2), w |-> w, h |-> h] :
                       w \in {Absent, JInt(800), JBool(TRUE), JStr("800")},
                       h \in {Absent, JInt(600), JFloat(600)}},
        fp \in {Absent, JBool(TRUE), JStr("yes"), JInt(0)},
        tm \in {Absent, JInt(5000), JStr("5s"), JNull},
        hl \in {Absent, JBool(FALSE), JStr("no")},
        wu \in {Absent, JStr("load"), JStr("idle"), JInt(1)},
        sm \in {Absent, JInt(50), JStr("fast")}}
StartupArgvs == {DefaultArgv, [DefaultArgv EXCEPT !.headed = TRUE, !.slowmo = JInt(5)]}
StartupLists ==
    {<<>>} \cup {<<st>> : st \in CoreSteps}
    \cup {<<ScreenshotStep(JStr("01.png"), Absent), st>> : st \in CoreSteps}
InitStartup ==
    \E f \in FileStates, sp \in StartupSpecs \cup {WithSteps(DefaultSpec, l) : l \in StartupLists},
       a \in StartupArgvs :
        /\ f # "object" => sp = DefaultSpec /\ a = DefaultArgv
        /\ (sp \notin StartupSpecs \/ sp.url.t # "str" \/ sp.steps.t # "list") => a = DefaultArgv
        /\ Start(a, <<"/", "proj">>, f, sp)
SpecStartup == InitStartup /\ [][Next]_vars

(* ---------------------------------------------- the paths specification *)
\* every --spec, --out-dir and working directory, with screenshot steps of
\* relative, nested and absolute paths
ShotPaths == {"01.png", "a/b/out.png", "/abs/out.png"}
PathLists ==
    {<<ScreenshotStep(JStr(x), Absent)>> : x \in ShotPaths}
    \cup {<<ScreenshotStep(JStr(x), Absent), ScreenshotStep(JStr(y), Absent)>> : x, y \in ShotPaths}
    \cup {<<st>> : st \in CoreSteps}
InitPaths ==
    \E sa \in {"flow.json", "/proj/flow.json", "sub/flow.json"},
       od \in {JNull, JStr(""), JStr("shots"), JStr("../out"), JStr("/out"), JStr("~/out")},
       wd \in {<<"/", "proj">>, <<"/", "work", "run">>},
       l \in PathLists :
        Start([DefaultArgv EXCEPT !.spec = sa, !.out_dir = od], wd, "object", WithSteps(DefaultSpec, l))
SpecPaths == InitPaths /\ [][Next]_vars

(* ------------------------------------------------ reading the call log *)
Done == ~Running
\* the calls of step i, in order
StepLog(i) == SelectSeq(log, LAMBDA e : e.i = i)
\* the calls of step i to one operation
StepCalls(i, op) == SelectSeq(StepLog(i), LAMBDA e : e.op = op)
\* step i has been run: to its end, or to the exception that ended the run
Completed(i) == pc \in {"steps", "done"} /\ i < idx
FailedAt(i) == pc = "steps" /\ Done /\ idx = i /\ i <= Len(steps)
Started(i) == Completed(i) \/ FailedAt(i)
Launched == \E n \in DOMAIN log : log[n].op = "launch"

(* ------------------------------------------------------------------- C1 *)
IsUnknownAction(st) ==
    /\ st.dict /\ st.action.t = "str"
    /\ st.action.s \notin {"waitFor", "click", "clickText", "sleep", "screenshot", "goto"}
UnknownActionError(st) == <<"unknown action: ", st.action.s>>

\* C1: when the run reaches a step k whose action is a string outside the six
\* known actions, it ends with exit code 2 and an error naming that action; the
\* loop never moves past k and no call of step k or of a later step is made.
C1_UnknownActionExits2 ==
    \A k \in 1..Len(steps) :
        IsUnknownAction(steps[k]) =>
            /\ idx <= k
            /\ \A n \in DOMAIN log : log[n].i < k
            /\ (pc = "steps" /\ idx = k /\ Running) => ENABLED StepUnknown
            /\ FailedAt(k) =>
                 /\ exitCode = 2
                 /\ err = Exc("SpecError", UnknownActionError(steps[k]))
                 /\ stderr = <<Line("error: ", UnknownActionError(steps[k]), <<>>)>>

\* an unknown action in the middle of the list, met after a step that made calls
C1_Witness ==
    /\ Len(steps) = 3 /\ IsUnknownAction(steps[2]) /\ FailedAt(2)
    /\ Len(StepLog(1)) > 0 /\ exitCode = 2

(* ------------------------------------------------------------------- C2 *)
UrlInvalid == spec.url.t # "str"
StepsInvalid == spec.steps.t # "list"
RequiredFieldError(key, type) == <<"spec.", key, " must be ", type>>

\* C2: for a spec object whose url is absent or not a string, or whose steps is
\* absent or not a list, the run stops before the browser with exit code 2 and
\* the one line "error: spec.<field> must be <type>"; url is reported when both
\* are invalid.
C2_RequiredFieldsExit2 ==
    (file = "object" /\ (UrlInvalid \/ StepsInvalid)) =>
        /\ pc = "start" /\ log = <<>>
        /\ Done =>
             /\ exitCode = 2
             /\ stderr = <<Line("error: ",
                                IF UrlInvalid THEN RequiredFieldError("url", "str")
                                ELSE RequiredFieldError("steps", "list"), <<>>)>>

\* both fields invalid: url is the one reported
C2_Witness ==
    /\ file = "object" /\ spec.url.t = "absent" /\ spec.steps.t = "str" /\ Done
    /\ stderr[1].msg = RequiredFieldError("url", "str")

(* ------------------------------------------------------------------- C3 *)
IsClickText(st) == st.dict /\ st.action = JStr("clickText") /\ st.text.t = "str"
\* the matches the engine reported for a category in step i (0 when not asked)
Matches(i, cat) ==
    LET asked == SelectSeq(StepCalls(i, "count"), LAMBDA e : e.s = cat)
    IN  IF asked = <<>> THEN 0 ELSE asked[1].a.n
Asked(i, cat) == \E n \in DOMAIN log : log[n].i = i /\ log[n].op = "count" /\ log[n].s = cat
Clicks(i) == StepCalls(i, "locator.first.click")

\* C3: a clickText step, with noWaitAfter true or false, clicks at most once,
\* and clicks the first match of the first category in the order button, link,
\* text that has a match: a link only when no button matched, a text match only
\* when neither a button nor a link matched; when no category has a match it
\* clicks nothing and fails with "No element found matching text".
C3_ClickTextPriority ==
    \A i \in 1..Len(steps) :
        (IsClickText(steps[i]) /\ Started(i)) =>
            LET clicks == Clicks(i)
                b == Matches(i, "button")
                l == Matches(i, "link")
                t == Matches(i, "text")
                want == IF b > 0 THEN "button" ELSE IF l > 0 THEN "link"
                        ELSE IF t > 0 THEN "text" ELSE "none"
            IN  /\ Asked(i, "button")
                /\ b = 0 => Asked(i, "link")
                /\ (b = 0 /\ l = 0) => Asked(i, "text")
                /\ Len(clicks) <= 1
                /\ want = "none" <=> clicks = <<>>
                /\ clicks # <<>> =>
                     /\ clicks[1].s = want
                     /\ clicks[1].a = JBool(Truthy(steps[i].noWaitAfter))
                /\ want = "none" =>
                     /\ FailedAt(i) /\ exitCode = 2
                     /\ err = Exc("TimeoutError", <<"No element found matching text: ", steps[i].text.s>>)

\* with noWaitAfter set, no button and several links: the link is clicked
C3_Witness ==
    \E i \in 1..Len(steps) :
        /\ IsClickText(steps[i]) /\ Completed(i) /\ Truthy(steps[i].noWaitAfter)
        /\ Matches(i, "button") = 0 /\ Matches(i, "link") = 2
        /\ Clicks(i) # <<>> /\ Clicks(i)[1].s = "link"

(* ------------------------------------------------------------------- C4 *)
\* what the run failed with, by kind
SpecFailure == err.cls \in {"SpecError", "Rejected"}
\* an exception of a call on the browser, the context or the page
EngineFailed == err.cls \in {"TimeoutError", "Error"} /\ err.msg # <<"sync_playwright">>
EngineTimeout == err.cls = "TimeoutError"

\* C4 as stated: a specification error and anything the engine surfaces give
\* exit code 2, any other failure gives 1, and 0 is returned only without a
\* failure.
C4_AsStated ==
    Done =>
        /\ (SpecFailure \/ EngineFailed) => exitCode = 2
        /\ (err # NoError /\ ~SpecFailure /\ ~EngineFailed) => exitCode = 1
        /\ exitCode = 0 => err = NoError

\* C4 amended: a specification error and the engine's TimeoutError (selector
\* timeout, navigation timeout, no element found) give exit code 2; every other
\* failure, any other error of the engine included, gives 1; 0 is returned only
\* without a failure.
C4_ExitCodeByKind ==
    Done =>
        /\ (SpecFailure \/ EngineTimeout) => exitCode = 2
        /\ (err # NoError /\ ~SpecFailure /\ ~EngineTimeout) => exitCode = 1
        /\ exitCode = 0 <=> err = NoError
        /\ exitCode \in {0, 1, 2}

\* a navigation timeout in a goto step, after a screenshot, exits with 2
C4_Witness ==
    /\ Done /\ exitCode = 2 /\ err = Exc("TimeoutError", <<"goto">>)
    /\ pc = "steps" /\ idx = 2 /\ files # {}

(* ------------------------------------------------------------------- C5 *)
Present(v) == v.t # "absent"
OptionalFields ==
    {"viewport", "width", "height", "fullPage", "timeoutMs", "headless", "waitUntil", "slowMoMs"}
ValidWaitUntil(v) == v.t = "str" /\ v.s \in {"load", "domcontentloaded", "networkidle", "commit"}
\* an optional field is present with a value that is not of the type the data
\* model gives it
WrongType(field) ==
    CASE field = "viewport" -> Present(spec.viewport) /\ spec.viewport.t # "dict"
      [] field = "width" -> Present(spec.width) /\ spec.width.t # "int"
      [] field = "height" -> Present(spec.height) /\ spec.height.t # "int"
      [] field = "fullPage" -> Present(spec.fullPage) /\ spec.fullPage.t # "bool"
      [] field = "timeoutMs" -> Present(spec.timeoutMs) /\ spec.timeoutMs.t # "int"
      [] field = "headless" -> Present(spec.headless) /\ spec.headless.t # "bool"
      [] field = "waitUntil" -> Present(spec.waitUntil) /\ ~ValidWaitUntil(spec.waitUntil)
      [] OTHER -> Present(spec.slowMoMs) /\ spec.slowMoMs.t \notin {"int", "null"}
WronglyTyped == {field \in OptionalFields : WrongType(field)}
\* the message run() prints for a field
FieldMessage(field) ==
    CASE field = "viewport" -> <<"spec.viewport must be an object">>
      [] field \in {"width", "height"} -> <<"spec.viewport width/height must be integers">>
      [] field = "timeoutMs" -> <<"spec.timeoutMs must be an integer">>
      [] field = "waitUntil" -> <<"spec.waitUntil must be load|domcontentloaded|networkidle|commit">>
      [] OTHER -> <<"spec.", field>>
RequiredOk == file = "object" /\ ~UrlInvalid /\ ~StepsInvalid
RejectedAtStartup == pc = "start" /\ Done /\ exitCode = 2 /\ log = <<>>

\* C5 as stated: every optional field present with a value of the wrong type is
\* rejected at startup with exit code 2 and a message naming it, and never
\* reaches the engine.
C5_AsStated ==
    (RequiredOk /\ (pc # "start" \/ Done) /\ WronglyTyped # {}) =>
        /\ RejectedAtStartup
        /\ \E field \in WronglyTyped : stderr = <<Line("error: ", FieldMessage(field), <<>>)>>

\* a field fails one of the checks run() makes; for an integer it takes a
\* Python int, which a JSON boolean is
FailsCheck(field) ==
    CASE field = "viewport" -> Present(spec.viewport) /\ spec.viewport.t # "dict"
      [] field = "width" -> Present(spec.width) /\ spec.width.t \notin {"int", "bool"}
      [] field = "height" -> Present(spec.height) /\ spec.height.t \notin {"int", "bool"}
      [] field = "timeoutMs" -> Present(spec.timeoutMs) /\ spec.timeoutMs.t \notin {"int", "bool"}
      [] field = "waitUntil" -> Present(spec.waitUntil) /\ ~ValidWaitUntil(spec.waitUntil)
      [] OTHER -> FALSE
Checked == {field \in OptionalFields : FailsCheck(field)}
LaunchCalls == SelectSeq(log, LAMBDA e : e.op = "launch")
ContextCalls == SelectSeq(log, LAMBDA e : e.op = "new_context")

\* C5 amended: at startup a viewport that is not an object, a viewport width or
\* height or a timeoutMs that is not an integer (a JSON boolean passes as one),
\* and a waitUntil outside the four values are rejected with exit code 2 and a
\* message naming the field, before any engine call.  With none of these the
\* run goes on to the browser: fullPage and headless of any type are coerced to
\* their truth value, and slowMoMs of any type is passed to the launch as it is
\* (unless --slowmo replaces it).
C5_CheckedFieldsRejected ==
    (RequiredOk /\ (pc # "start" \/ Done)) =>
        /\ Checked # {} =>
             /\ RejectedAtStartup
             /\ \E field \in Checked : stderr = <<Line("error: ", FieldMessage(field), <<>>)>>
        /\ Checked = {} =>
             /\ pc # "start"
             /\ loc.full_page = Truthy(spec.fullPage)
             /\ \A n \in DOMAIN LaunchCalls :
                  /\ LaunchCalls[n].a = JBool(IF argv.headed THEN FALSE
                                              ELSE IF Present(spec.headless) THEN Truthy(spec.headless)
                                              ELSE TRUE)
                  /\ LaunchCalls[n].b = (IF argv.slowmo.t # "null" THEN argv.slowmo
                                         ELSE IF Present(spec.slowMoMs) THEN spec.slowMoMs ELSE JNull)
             /\ \A n \in DOMAIN ContextCalls :
                  /\ ContextCalls[n].a = (IF Present(spec.width) THEN spec.width ELSE JInt(1440))
                  /\ ContextCalls[n].b = (IF Present(spec.height) THEN spec.height ELSE JInt(900))

\* a float height is rejected by name although width, fullPage and slowMoMs
\* are wrongly typed too
C5_Witness ==
    /\ RequiredOk /\ RejectedAtStartup
    /\ spec.height = JFloat(600) /\ spec.width = JBool(TRUE) /\ spec.fullPage = JStr("yes")
    /\ spec.slowMoMs = JStr("fast")
    /\ stderr = <<Line("error: ", FieldMessage("height"), <<>>)>>

(* ------------------------------------------------------------------- C6 *)
LaunchOps == {"sync_playwright", "launch", "new_context", "new_page"}
CloseOps == {"context.close", "browser.close", "sync_playwright.__exit__"}
ActionOf(st) == IF st.dict /\ st.action.t = "str" THEN st.action.s ELSE ""
\* the call that carries out a step of each kind
PrimaryOp(kind) ==
    CASE kind = "waitFor" -> "wait_for_selector"
      [] kind = "click" -> "click"
      [] kind = "clickText" -> "count"
      [] kind = "sleep" -> "wait_for_timeout"
      [] kind = "screenshot" -> "screenshot"
      [] kind = "goto" -> "goto"
      [] OTHER -> "none"
\* where a call stands in the run: 0 for the launch and the first navigation,
\* the step's index for a call of a step, past the last step for the teardown
Position(e) ==
    IF e.op \in CloseOps THEN Len(steps) + 1
    ELSE IF e.op \in LaunchOps \/ e.i = 0 THEN 0
    ELSE e.i
\* where the screenshot of step i goes
OutPath(i) == resolve_path(steps[i].path.s, loc.base_dir)

\* C6: the calls made are those of a prefix of the steps, in the order of the
\* list, between the launch and the close calls; no call of a step is made
\* twice; a step that was passed made its call; a failure of step k ends the run
\* there (nothing is enabled after it, no call of a later step exists) and the
\* screenshots of the steps before k are still written.
C6_SequentialFailFast ==
    /\ \A n \in DOMAIN log :
         /\ log[n].i <= Len(steps) /\ log[n].i <= idx
         /\ Running => log[n].i < idx
         /\ n < Len(log) => Position(log[n]) <= Position(log[n + 1])
    /\ \A i \in 1..Len(steps) :
         LET sl == StepLog(i)
         IN  \A a, b \in DOMAIN sl :
               (a < b /\ sl[a].op = sl[b].op) => (sl[a].op = "count" /\ sl[a].s # sl[b].s)
    /\ \A i \in 1..Len(steps) :
         Completed(i) =>
           /\ ActionOf(steps[i]) \in KnownActions
           /\ StepCalls(i, PrimaryOp(ActionOf(steps[i]))) # <<>>
           /\ ActionOf(steps[i]) = "screenshot" => OutPath(i) \in files
    /\ err # NoError => Done
    /\ Done => ~ENABLED Next
    /\ Done => (exitCode = 0 <=> (pc = "done" /\ idx = Len(steps) + 1))

\* a locator timeout in the second of three steps, after a screenshot was saved
C6_Witness ==
    /\ Len(steps) = 3 /\ FailedAt(2) /\ err.cls = "TimeoutError"
    /\ ActionOf(steps[1]) = "screenshot" /\ files = {OutPath(1)}
    /\ ActionOf(steps[3]) = "screenshot" /\ StepLog(3) = <<>>

(* ------------------------------------------------------------------- C7 *)
\* the close calls made so far, in order
Closes == SelectSeq(log, LAMBDA e : e.op \in {"context.close", "browser.close"})
CloseNames == [n \in DOMAIN Closes |-> Closes[n].op]
InTeardown == pc = "steps" /\ idx = Len(steps) + 1

\* C7 as stated: the context and then the browser are closed exactly when the run
\* completes normally; on every error path after the launch neither close call
\* is made.
C7_AsStated ==
    /\ exitCode = 0 => (idx = Len(steps) + 1 /\ CloseNames = <<"context.close", "browser.close">>)
    /\ Running => CloseNames = <<>>
    /\ (Done /\ exitCode \in {1, 2} /\ Launched) => CloseNames = <<>>

\* C7 amended: run() returns 0 only after every step has run and context.close()
\* and then browser.close() have been called; on every error path whose failure
\* comes before the teardown (startup, launch, navigation or a step) neither is
\* called; a failure of context.close() itself ends the run with exit code 1
\* before browser.close() is called, and a failure of browser.close() ends it
\* with exit code 1 after both were called.
C7_CloseOnNormalCompletion ==
    /\ exitCode = 0 =>
         /\ pc = "done" /\ idx = Len(steps) + 1
         /\ \A i \in 1..Len(steps) : StepLog(i) # <<>>
         /\ CloseNames = <<"context.close", "browser.close">>
    /\ Running => CloseNames = <<>>
    /\ (Done /\ exitCode # 0 /\ ~InTeardown) => CloseNames = <<>>
    /\ (Done /\ exitCode # 0 /\ InTeardown) =>
         /\ exitCode = 1
         /\ \/ CloseNames = <<"context.close">> /\ err.msg = <<"context.close">>
            \/ CloseNames = <<"context.close", "browser.close">> /\ err.msg = <<"browser.close">>

\* three steps run through and both close calls made
C7_Witness ==
    /\ exitCode = 0 /\ Len(steps) = 3
    /\ CloseNames = <<"context.close", "browser.close">>

(* ------------------------------------------------------------------- C8 *)
\* the file --spec names, and the directory that holds it
SpecFile == Resolve(ExpandUser(PathParse(argv.spec)), cwd)
OutDirGiven == argv.out_dir.t = "str" /\ argv.out_dir.s # ""
\* where the claim puts the screenshot of step i
ClaimedLocation(i) ==
    LET path == PathParse(steps[i].path.s)
    IN  IF IsAbsolute(path) THEN path
        ELSE IF OutDirGiven
             THEN IF IsAbsolute(PathParse(argv.out_dir.s))
                  THEN PathParse(argv.out_dir.s) \o path
                  ELSE Resolve(ExpandUser(PathParse(argv.out_dir.s)), cwd) \o path
             ELSE Parent(SpecFile) \o path

\* C8: every screenshot is captured to the step's path when that is absolute,
\* else to --out-dir joined with it when --out-dir is given (and not empty), else
\* to the spec file's directory joined with it; the working directory enters
\* only through a relative --out-dir; the parent directories are created by
\* the call just before the capture, and a saved file is at that location.
C8_ScreenshotLocation ==
    /\ \A n \in DOMAIN log :
         log[n].op = "screenshot" =>
           /\ log[n].p = ClaimedLocation(log[n].i)
           /\ n > 1 /\ log[n - 1].op = "mkdir" /\ log[n - 1].i = log[n].i
           /\ log[n - 1].p = Parent(log[n].p)
           /\ Ancestors(Parent(log[n].p)) \subseteq dirs
    /\ \A i \in 1..Len(steps) :
         (Completed(i) /\ ActionOf(steps[i]) = "screenshot") => ClaimedLocation(i) \in files
    /\ \A f \in files : \E i \in 1..Len(steps) :
         ActionOf(steps[i]) = "screenshot" /\ Started(i) /\ f = ClaimedLocation(i)

\* a nested relative path under a relative --out-dir, and an absolute path
C8_Witness ==
    /\ argv.out_dir = JStr("../out") /\ cwd = <<"/", "work", "run">> /\ argv.spec = "sub/flow.json"
    /\ files = {<<"/", "work", "out", "a", "b", "out.png">>, <<"/", "abs", "out.png">>}
    /\ <<"/", "work", "out", "a", "b">> \in dirs
    /\ exitCode = 0

(* ------------------------------------------------------------------- C9 *)
Pauses(i) == StepCalls(i, "wait_for_timeout")
PositiveInt(v) == v.t = "int" /\ v.n > 0
AbsentOrNotPositive(v) == v.t = "absent" \/ (v.t = "int" /\ v.n <= 0)
\* the call of step i that does the action, and whether it went through
ActionCall(kind) == IF kind = "clickText" THEN "locator.first.click" ELSE PrimaryOp(kind)
ActionSucceeded(i) ==
    /\ StepCalls(i, ActionCall(ActionOf(steps[i]))) # <<>>
    /\ ~(FailedAt(i) /\ err.msg = <<ActionCall(ActionOf(steps[i]))>>)
LastOf(sq) == sq[Len(sq)]

\* C9: in a waitFor, click, clickText or goto step a positive integer afterMs
\* gives exactly one pause of that length, made after the action succeeded as
\* the last call of the step, and no pause when the action failed; in a
\* screenshot step it gives exactly one pause, made before the directory and
\* the capture; a sleep step makes one pause of its ms whatever afterMs is; an
\* afterMs that is absent or an integer <= 0 gives no pause.
C9_AfterMsPause ==
    \A i \in 1..Len(steps) :
        Started(i) =>
            LET st == steps[i]
                kind == ActionOf(st)
                sl == StepLog(i)
                pauses == Pauses(i)
            IN  /\ kind \in {"waitFor", "click", "clickText", "goto"} =>
                     /\ Len(pauses) <= 1
                     /\ ~ActionSucceeded(i) => pauses = <<>>
                     /\ AbsentOrNotPositive(st.afterMs) => pauses = <<>>
                     /\ (PositiveInt(st.afterMs) /\ ActionSucceeded(i)) =>
                          /\ pauses = <<Ev("wait_for_timeout", i, "", st.afterMs, JNull, <<>>)>>
                          /\ LastOf(sl) = pauses[1]
                          /\ Len(sl) >= 2 /\ sl[Len(sl) - 1].op = ActionCall(kind)
                /\ (kind = "screenshot" /\ st.path.t = "str") =>
                     /\ AbsentOrNotPositive(st.afterMs) => pauses = <<>>
                     /\ PositiveInt(st.afterMs) =>
                          /\ pauses = <<Ev("wait_for_timeout", i, "", st.afterMs, JNull, <<>>)>>
                          /\ sl[1] = pauses[1]
                /\ (kind = "sleep" /\ st.ms.t = "int") =>
                     pauses = <<Ev("wait_for_timeout", i, "", st.ms, JNull, <<>>)>>

\* a screenshot that pauses before its capture, then a waitFor that pauses
\* after its wait
C9_Witness ==
    /\ Len(steps) >= 2 /\ Completed(2)
    /\ ActionOf(steps[1]) = "screenshot" /\ PositiveInt(steps[1].afterMs)
    /\ StepLog(1)[1].op = "wait_for_timeout" /\ LastOf(StepLog(1)).op = "screenshot"
    /\ ActionOf(steps[2]) = "waitFor" /\ PositiveInt(steps[2].afterMs)
    /\ StepLog(2)[1].op = "wait_for_selector" /\ LastOf(StepLog(2)).op = "wait_for_timeout"

(* ------------------------------------------------------------------ C10 *)
\* every check run() makes before the try block passes
StartupChecksPass ==
    /\ file = "object" /\ spec.url.t = "str" /\ spec.steps.t = "list"
    /\ ~Present(spec.viewport) \/ spec.viewport.t = "dict"
    /\ ~Present(spec.width) \/ spec.width.t \in {"int", "bool"}
    /\ ~Present(spec.height) \/ spec.height.t \in {"int", "bool"}
    /\ ~Present(spec.timeoutMs) \/ spec.timeoutMs.t \in {"int", "bool"}
    /\ ~Present(spec.waitUntil) \/ ValidWaitUntil(spec.waitUntil)
StepFieldErrors ==
    {<<"waitFor requires selector">>, <<"click requires selector">>, <<"clickText requires text">>,
     <<"sleep requires ms">>, <<"screenshot requires path">>, <<"goto requires url">>,
     <<"each step must be an object">>, <<"step.action must be a string">>}

\* C10: no engine call is made and nothing is written unless every startup
\* check passed; a missing file, bad JSON, a non-object, an invalid url or steps
\* and a failed viewport, timeoutMs or waitUntil check end the run with exit code
\* 2 before the launch; a top-level spec that passes is not rejected at startup
\* whatever its steps hold, and a step's field error is raised only at that
\* step, after the launch, the first navigation and the calls of every earlier
\* step.
C10_NoBrowserBeforeValidation ==
    /\ (log # <<>> \/ files # {} \/ dirs # {} \/ stdout # <<>>) => StartupChecksPass
    /\ ~StartupChecksPass => pc = "start"
    /\ (~StartupChecksPass /\ Done /\ file # "unreadable") => (exitCode = 2 /\ log = <<>>)
    /\ (StartupChecksPass /\ pc = "start") => Running
    /\ (Done /\ err.cls = "SpecError" /\ err.msg \in StepFieldErrors) =>
         /\ pc = "steps" /\ idx \in 1..Len(steps)
         /\ Len(log) >= 5 /\ log[2].op = "launch" /\ log[5] = Ev("goto", 0, spec.url.s, loc.wait_until, loc.timeout_ms, <<>>)
         /\ \A i \in 1..(idx - 1) : StepLog(i) # <<>>
         /\ StepLog(idx) = <<>>

\* a screenshot step without a path, found after an earlier screenshot was saved
C10_Witness ==
    /\ FailedAt(2) /\ err = SpecError(<<"screenshot requires path">>)
    /\ files # {} /\ Launched /\ exitCode = 2

====
